---- MODULE Spec2Model ----
(***************************************************************************)
(* Model of the notebook playground component (src/src/App.tsx): the       *)
(* React state of App, the kernel-initialisation effect, executeCode, the  *)
(* per-future IOPub handler and the classic-comm adapter registered on the *)
(* kernel.                                                                 *)
(*                                                                         *)
(* The component drives three library objects whose behaviour decides what *)
(* its assignments do; they are modelled by what the assignment does:      *)
(*   - `future.onIOPub = h` is a single handler slot of the future;        *)
(*   - `outputArea.future = f` is the OutputArea setter: it returns when f *)
(*     is already bound, otherwise disposes the previously bound future,   *)
(*     binds f, clears the model and installs the area's own handler in    *)
(*     f.onIOPub (which appends output messages to the model);             *)
(*   - `comm.onMsg = h` / `comm.onClose = h` are single handler slots;     *)
(*   - `kernel.requestExecute` throws on a kernel that was shut down.      *)
(***************************************************************************)
EXTENDS Integers, Sequences, FiniteSets, TLC

\* ---------------------------------------------------------------- bounds
MaxKernels == 2      \* kernel starts (changes of the token to a non-empty one)
MaxFutures == 2      \* requestExecute calls that return a future
MaxMsgs    == 2      \* IOPub messages delivered per future
MaxCalls   == 3      \* executeCode calls
MaxComms   == 1      \* comms opened by the kernels
MaxCommMsgs == 2     \* comm_msg messages delivered per comm
MaxSends   == 1      \* send calls per view

\* ------------------------------------------------------------- constants
NoKernel == 0        \* useState<any>(null)
NoArea   == 0        \* useState<OutputArea | null>(null)
NoFuture == 0        \* OutputArea with no future bound yet

WidgetStateMime == "application/vnd.jupyter.widget-state+json"
DefaultCode     == "# Enter Python code"
EditorTexts     == {DefaultCode, ""}

WidgetTarget    == "jupyter.widget"
NoCallback      == 0 \* no callback
NoHandler       == [cb |-> NoCallback, view |-> 0]   \* an unassigned comm slot
Callbacks       == {1, 2}            \* callbacks of the widget runtime
CommIds         == {"c1", "c2"}
\* Arguments of view.send: data, callbacks, metadata, buffers.
SendArgs ==
  [data : {"d"}, callbacks : {"undefined", "cbs"},
   metadata : {"undefined", "meta"}, buffers : {"undefined", "bufs"}]

KernelIds == 1..MaxKernels
Tokens    == 0..MaxKernels           \* 0 is the empty token ""

\* IOPub messages: header.msg_type, whether content has a `data` mapping, and
\* the value stored under the widget-state MIME key ("none": key absent).
IOPubMsgs ==
  { [msg_type |-> "status",         hasData |-> FALSE, widget |-> "none"],
    [msg_type |-> "stream",         hasData |-> FALSE, widget |-> "none"],
    [msg_type |-> "display_data",   hasData |-> TRUE,  widget |-> "none"],
    [msg_type |-> "display_data",   hasData |-> TRUE,  widget |-> "stateA"],
    [msg_type |-> "execute_result", hasData |-> TRUE,  widget |-> "stateA"] }

\* The IOPub messages that carry no widget state.
PlainMsgs == {m \in IOPubMsgs : m.widget = "none"}

\* Message kinds the OutputArea's handler appends to its model.
OutputTypes == {"stream", "display_data", "execute_result", "error"}

VARIABLES
  token,          \* useState token (0 = "")
  kernel,         \* useState kernel (NoKernel = null)
  outputArea,     \* useState outputArea (NoArea = null)
  kernelStarted,  \* useState kernelStarted
  managerRef,     \* managerRef.current (0 = null, else the manager of start i)
  editorRef,      \* editorRef.current # null
  editorText,     \* what editor.getValue() returns
  effectKernel,   \* `kernel` captured by the cleanup of the current effect
  starts,         \* phase of each kernelManager.startNew() chain
  shutdown,       \* kernels on which shutdown() was called
  commTargets,    \* per kernel: handlers registered for "jupyter.widget"
  areas,          \* per OutputArea: [model, future]
  futures,        \* futures returned by requestExecute, in call order
  setStateLog,    \* calls of managerRef.current.set_state
  execCalls,      \* number of executeCode calls
  comms,          \* native comms, in the order the kernels opened them, each
                  \* with the messages it received and the callbacks it called
  views,          \* classicComm objects, in the order they were built
  commOpenLog,    \* calls of managerRef.current.handle_comm_open
  registered,     \* per comm: the callbacks last passed to on_msg / on_close
  pendingClear,   \* area cleared by an executeCode call that passed its
                  \* condition, while no IOPub message was delivered since
  diag            \* console.error output of the latest step, and the
                  \* console.log at the entry of executeCode

vars == <<token, kernel, outputArea, kernelStarted, managerRef, editorRef,
          editorText, effectKernel, starts, shutdown, commTargets, areas,
          futures, setStateLog, execCalls, comms, views, commOpenLog,
          registered, pendingClear, diag>>

reactVars == <<token, kernel, outputArea, kernelStarted, managerRef,
               effectKernel, starts, shutdown, commTargets>>
editorVars == <<editorRef, editorText>>
execVars == <<areas, futures, setStateLog, execCalls, pendingClear>>
commVars == <<comms, views, commOpenLog, registered>>

\* ------------------------------------------------------------------ Init
Init ==
  /\ token = 0
  /\ kernel = NoKernel
  /\ outputArea = NoArea
  /\ kernelStarted = FALSE
  /\ managerRef = 0
  /\ editorRef = FALSE
  /\ editorText = DefaultCode
  /\ effectKernel = NoKernel
  /\ starts = [i \in KernelIds |-> "none"]
  /\ shutdown = {}
  /\ commTargets = [i \in KernelIds |-> 0]
  /\ areas = [i \in KernelIds |-> [model |-> <<>>, future |-> NoFuture]]
  /\ futures = <<>>
  /\ setStateLog = <<>>
  /\ execCalls = 0
  /\ comms = <<>>
  /\ views = <<>>
  /\ commOpenLog = <<>>
  /\ registered = <<>>
  /\ pendingClear = NoArea
  /\ diag = {}

\* ------------------------------------------- kernel initialisation effect
NumStarts == Cardinality({i \in KernelIds : starts[i] # "none"})

\* onChange of the token input: re-render, cleanup of the previous effect
\* (kernel?.shutdown() on the kernel that render had captured), then the new
\* effect: with a non-empty token, kernelManager.startNew() is issued and the
\* cleanup closure captures the `kernel` of this render.
SetToken(t) ==
  /\ t # token
  /\ t # 0 => NumStarts < MaxKernels
  /\ token' = t
  /\ shutdown' = IF token # 0 /\ effectKernel # NoKernel
                   THEN shutdown \cup {effectKernel} ELSE shutdown
  /\ IF t # 0
       THEN /\ starts' = [starts EXCEPT ![NumStarts + 1] = "starting"]
            /\ effectKernel' = kernel
       ELSE /\ starts' = starts
            /\ effectKernel' = NoKernel
  /\ diag' = {}
  /\ UNCHANGED commVars
  /\ UNCHANGED <<kernel, outputArea, kernelStarted, managerRef, editorVars,
                 commTargets, areas, futures, setStateLog, execCalls,
                 pendingClear>>

\* startNew() resolved: setKernel(kernel), then await createFakeContext.
StartResolved(i) ==
  /\ starts[i] = "starting"
  /\ starts' = [starts EXCEPT ![i] = "context"]
  /\ kernel' = i
  /\ diag' = {}
  /\ UNCHANGED commVars
  /\ UNCHANGED <<token, outputArea, kernelStarted, managerRef, editorVars,
                 effectKernel, shutdown, commTargets, areas, futures,
                 setStateLog, execCalls, pendingClear>>

\* startNew() rejected, or createFakeContext rejected: the .catch reports it.
StartFailed(i) ==
  /\ starts[i] \in {"starting", "context"}
  /\ starts' = [starts EXCEPT ![i] = "failed"]
  /\ diag' = {"Kernel start error:"}
  /\ UNCHANGED commVars
  /\ UNCHANGED <<token, kernel, outputArea, kernelStarted, managerRef,
                 editorVars, effectKernel, shutdown, commTargets, areas,
                 futures, setStateLog, execCalls, pendingClear>>

\* The rest of the .then callback: widget manager, registerCommTarget, a
\* fresh OutputArea on a fresh model, setOutputArea, setKernelStarted(true).
ContextReady(i) ==
  /\ starts[i] = "context"
  /\ starts' = [starts EXCEPT ![i] = "done"]
  /\ managerRef' = i
  /\ commTargets' = [commTargets EXCEPT ![i] = @ + 1]
  /\ areas' = [areas EXCEPT ![i] = [model |-> <<>>, future |-> NoFuture]]
  /\ outputArea' = i
  /\ kernelStarted' = TRUE
  /\ diag' = {}
  /\ UNCHANGED commVars
  /\ UNCHANGED <<token, kernel, editorVars, effectKernel, shutdown, futures,
                 setStateLog, execCalls, pendingClear>>

\* ----------------------------------------------------------------- editor
\* The editor is rendered once kernelStarted; onMount stores it in editorRef.
HandleEditorDidMount ==
  /\ kernelStarted
  /\ ~editorRef
  /\ editorRef' = TRUE
  /\ diag' = {}
  /\ UNCHANGED commVars
  /\ UNCHANGED <<reactVars, editorText, areas, futures, setStateLog, execCalls,
                 pendingClear>>

EditCode(text) ==
  /\ editorRef
  /\ text # editorText
  /\ editorText' = text
  /\ diag' = {}
  /\ UNCHANGED commVars
  /\ UNCHANGED <<reactVars, editorRef, areas, futures, setStateLog, execCalls,
                 pendingClear>>

\* ------------------------------------------------------------ executeCode
\* editorRef.current?.getValue(): "" stands for undefined as well (both falsy).
GetCode == IF editorRef THEN editorText ELSE ""

\* Mutant of CanSubmit: the condition tests the kernel only.
CanSubmitKernelOnly(k, code, oa) == k # NoKernel

\* Mutant of CanSubmit: the code text is not tested.
CanSubmitAnyCode(k, code, oa) == k # NoKernel /\ oa # NoArea

\* if (kernel && code && outputArea)
CanSubmit(k, code, oa) == k # NoKernel /\ code # "" /\ oa # NoArea

\* Mutant of Diagnostics: the second test hangs off an `else if`.
DiagnosticsElseIf(k, oa) ==
  IF k = NoKernel THEN {"Kernel not initialized."}
  ELSE IF oa = NoArea THEN {"Output area not initialized."} ELSE {}

\* The else branch: one console.error per missing object.
Diagnostics(k, oa) ==
  (IF k = NoKernel THEN {"Kernel not initialized."} ELSE {})
    \cup (IF oa = NoArea THEN {"Output area not initialized."} ELSE {})

\* Mutant of ClearModel: the model is not cleared.
ClearModelSkipped(as, oa) == as

\* outputArea.model.clear()
ClearModel(as, oa) == [as EXCEPT ![oa].model = <<>>]

\* kernel.requestExecute({ code }) followed by future.onIOPub = (msg) => ...:
\* the new future, with the closure's outputArea and the app's handler.
NewFuture(k, oa) ==
  [kernel |-> k, oa |-> oa, handler |-> "app", disposed |-> FALSE,
   done |-> "pending", emitted |-> <<>>]

\* executeCode, the component's execute operation. It is the onClick of the
\* Run button, which is rendered once kernelStarted; the operation itself is
\* taken in every state, so that its else branch is exercised.
ExecuteCode ==
  /\ execCalls < MaxCalls
  /\ execCalls' = execCalls + 1
  /\ IF CanSubmit(kernel, GetCode, outputArea)
       THEN IF kernel \in shutdown
              THEN \* requestExecute on a disposed kernel connection throws,
                   \* after the model was cleared
                   /\ areas' = ClearModel(areas, outputArea)
                   /\ futures' = futures
                   /\ pendingClear' = outputArea
                   /\ diag' = {"Executing code:", "Uncaught: Kernel is dead"}
              ELSE /\ Len(futures) < MaxFutures
                   /\ areas' = ClearModel(areas, outputArea)
                   /\ futures' = Append(futures, NewFuture(kernel, outputArea))
                   /\ pendingClear' = outputArea
                   /\ diag' = {"Executing code:"}
       ELSE /\ diag' = {"Executing code:"} \cup Diagnostics(kernel, outputArea)
            /\ UNCHANGED <<areas, futures, pendingClear>>
  /\ UNCHANGED commVars
  /\ UNCHANGED <<reactVars, editorVars, setStateLog>>

\* ------------------------------------------------------- IOPub messages
\* outputArea.future = future (the OutputArea setter), on area oa with f.
SetFuture(as, fs, oa, f) ==
  IF as[oa].future = f
    THEN [areas |-> as, futures |-> fs]
    ELSE LET old == as[oa].future
             fs1 == IF old # NoFuture
                      THEN [fs EXCEPT ![old].disposed = TRUE] ELSE fs
         IN [areas   |-> [as EXCEPT ![oa] = [model |-> <<>>, future |-> f]],
             futures |-> [fs1 EXCEPT ![f].handler = "area"]]

\* The condition guarding set_state in the app's handler; "none" when it
\* fails, else the payload passed to set_state.
WidgetState(msg) ==
  IF msg.msg_type = "display_data" /\ msg.hasData /\ msg.widget # "none"
    THEN msg.widget ELSE "none"

\* The handler installed by executeCode, run for message number n of f.
AppOnIOPub(f, n, msg) ==
  LET bound == SetFuture(areas, futures, futures[f].oa, f)
      ws    == WidgetState(msg)
  IN /\ areas' = bound.areas
     /\ futures' = [bound.futures EXCEPT ![f].emitted = Append(@, msg)]
     /\ setStateLog' =
          IF ws # "none" /\ managerRef # 0
            THEN Append(setStateLog,
                        [manager |-> managerRef, future |-> f, n |-> n,
                         state |-> ws, outcome |-> "pending"])
            ELSE setStateLog

\* The handler the OutputArea installs: output messages are appended.
AreaOnIOPub(f, n, msg) ==
  /\ areas' = IF msg.msg_type \in OutputTypes
                THEN [areas EXCEPT ![futures[f].oa].model = Append(@, <<f, n>>)]
                ELSE areas
  /\ futures' = [futures EXCEPT ![f].emitted = Append(@, msg)]
  /\ setStateLog' = setStateLog

\* The kernel publishes msg for future f; the future calls its onIOPub slot.
DeliverIOPub(f, msg) ==
  /\ f \in 1..Len(futures)
  /\ ~futures[f].disposed
  /\ futures[f].done = "pending"
  /\ futures[f].kernel \notin shutdown
  /\ Len(futures[f].emitted) < MaxMsgs
  /\ LET n == Len(futures[f].emitted) + 1
     IN IF futures[f].handler = "app"
          THEN AppOnIOPub(f, n, msg)
          ELSE AreaOnIOPub(f, n, msg)
  /\ pendingClear' = NoArea
  /\ diag' = {}
  /\ UNCHANGED commVars
  /\ UNCHANGED <<reactVars, editorVars, execCalls>>

\* ------------------------------------------- promises of the execution
\* future.done.then(() => console.log("Execution completed"))
FutureDone(f) ==
  /\ f \in 1..Len(futures)
  /\ futures[f].done = "pending"
  /\ ~futures[f].disposed
  /\ futures[f].kernel \notin shutdown
  /\ futures' = [futures EXCEPT ![f].done = "ok"]
  /\ diag' = {}
  /\ UNCHANGED commVars
  /\ UNCHANGED <<reactVars, editorVars, areas, setStateLog, execCalls,
                 pendingClear>>

\* Mutant of OnDoneRejected: the rejection handler submits the code again.
OnDoneRejectedRetry(fs, f) ==
  IF Len(fs) < MaxFutures
    THEN Append([fs EXCEPT ![f].done = "failed"],
                NewFuture(fs[f].kernel, fs[f].oa))
    ELSE [fs EXCEPT ![f].done = "failed"]

\* future.done.catch((err) => console.error("Execution error:", err)): what
\* the handler leaves of the futures.
OnDoneRejected(fs, f) == [fs EXCEPT ![f].done = "failed"]

\* future.done rejects (the future was disposed before its reply, or the
\* transport failed).
FutureFailed(f) ==
  /\ f \in 1..Len(futures)
  /\ futures[f].done = "pending"
  /\ futures' = OnDoneRejected(futures, f)
  /\ diag' = {"Execution error:"}
  /\ UNCHANGED commVars
  /\ UNCHANGED <<reactVars, editorVars, areas, setStateLog, execCalls,
                 pendingClear>>

\* set_state(widgetState).then(() => console.log(...))
SetStateResolved(i) ==
  /\ i \in 1..Len(setStateLog)
  /\ setStateLog[i].outcome = "pending"
  /\ setStateLog' = [setStateLog EXCEPT ![i].outcome = "ok"]
  /\ diag' = {}
  /\ UNCHANGED commVars
  /\ UNCHANGED <<reactVars, editorVars, areas, futures, execCalls, pendingClear>>

\* set_state(widgetState).catch((err) => console.error("Failed to apply
\* widget state:", err))
SetStateRejected(i) ==
  /\ i \in 1..Len(setStateLog)
  /\ setStateLog[i].outcome = "pending"
  /\ setStateLog' = [setStateLog EXCEPT ![i].outcome = "failed"]
  /\ diag' = {"Failed to apply widget state:"}
  /\ UNCHANGED commVars
  /\ UNCHANGED <<reactVars, editorVars, areas, futures, execCalls, pendingClear>>

\* ------------------------------------------------ comm target callback
\* The comm_open message of comm id, and the n-th comm_msg / the comm_close
\* message the kernel sends on it.
OpenMsg(id)    == [msg_type |-> "comm_open", comm_id |-> id]
CommMsgOf(id, n) == [msg_type |-> "comm_msg", comm_id |-> id, n |-> n]
CloseMsg(id)   == [msg_type |-> "comm_close", comm_id |-> id]

\* The comm object the kernel connection creates for a comm_open message.
NewComm(k, id) ==
  [kernel |-> k, commId |-> id, targetName |-> WidgetTarget,
   onMsg |-> NoHandler, onClose |-> NoHandler, closed |-> FALSE,
   inbox |-> <<>>, called |-> <<>>, sendCalls |-> <<>>, sent |-> <<>>,
   returned |-> {}]

\* const classicComm = { comm_id: comm.commId, target_name: comm.targetName,
\* ... }: the view built for native comm number c.
ClassicComm(c, comm) ==
  [comm |-> c, comm_id |-> comm.commId, target_name |-> comm.targetName]

\* Mutant of HandleCommOpen: the view is handed over twice.
HandleCommOpenTwice(log, v, msg) ==
  log \o << [manager |-> managerRef, view |-> v, msg |-> msg],
            [manager |-> managerRef, view |-> v, msg |-> msg] >>

\* managerRef.current?.handle_comm_open(classicComm, msg)
HandleCommOpen(log, v, msg) ==
  IF managerRef # 0
    THEN Append(log, [manager |-> managerRef, view |-> v, msg |-> msg])
    ELSE log

UsedCommIds == {comms[c].commId : c \in 1..Len(comms)}

\* The kernel publishes comm_open for target "jupyter.widget": the kernel
\* connection creates the comm and calls the handler registered for the
\* target (it runs only when one is registered), which builds the view and
\* hands it to the widget manager.
CommOpen(k, id) ==
  /\ Len(comms) < MaxComms
  /\ commTargets[k] > 0
  /\ k \notin shutdown
  /\ id \notin UsedCommIds
  /\ LET c    == Len(comms) + 1
         comm == NewComm(k, id)
     IN /\ comms' = Append(comms, comm)
        /\ views' = Append(views, ClassicComm(c, comm))
        /\ commOpenLog' = HandleCommOpen(commOpenLog, Len(views) + 1, OpenMsg(id))
        /\ registered' = Append(registered, [msg |-> NoCallback, close |-> NoCallback])
  /\ diag' = {}
  /\ UNCHANGED <<reactVars, editorVars, execVars>>

\* Views the widget runtime holds: those passed to handle_comm_open.
HandedOver == {commOpenLog[i].view : i \in 1..Len(commOpenLog)}

\* Mutant of OnMsg: a handler already installed is kept.
OnMsgKeepFirst(cs, c, v, cb) ==
  IF cs[c].onMsg = NoHandler
    THEN [cs EXCEPT ![c].onMsg = [cb |-> cb, view |-> v]]
    ELSE cs

\* on_msg: comm.onMsg = (msg) => { callback(msg); }
OnMsg(cs, c, v, cb) == [cs EXCEPT ![c].onMsg = [cb |-> cb, view |-> v]]

\* on_close: comm.onClose = (msg) => { callback(msg); }
OnClose(cs, c, v, cb) == [cs EXCEPT ![c].onClose = [cb |-> cb, view |-> v]]

\* Mutant of ReturnedId: the target name is returned.
ReturnedTarget(comm) == comm.targetName

\* What send, close and open return: comm.commId.
ReturnedId(comm) == comm.commId

ViewOnMsg(v, cb) ==
  /\ v \in HandedOver
  /\ LET c == views[v].comm
     IN /\ comms' = OnMsg(comms, c, v, cb)
        /\ registered' = [registered EXCEPT ![c].msg = cb]
  /\ diag' = {}
  /\ UNCHANGED <<reactVars, editorVars, execVars, views, commOpenLog>>

ViewOnClose(v, cb) ==
  /\ v \in HandedOver
  /\ LET c == views[v].comm
     IN /\ comms' = OnClose(comms, c, v, cb)
        /\ registered' = [registered EXCEPT ![c].close = cb]
  /\ diag' = {}
  /\ UNCHANGED <<reactVars, editorVars, execVars, views, commOpenLog>>

\* The comm accepts send and close while it is open on a live kernel.
CommIsOpen(c) == ~comms[c].closed /\ comms[c].kernel \notin shutdown

\* Mutant of Forwarded: the four arguments are passed on in place.
ForwardedInPlace(a) == <<a.data, a.callbacks, a.metadata>>

\* The arguments of comm.send(data, metadata, buffers) for view.send(a).
Forwarded(a) == <<a.data, a.metadata, a.buffers>>

\* send: comm.send(data, metadata, buffers); return comm.commId. sendCalls
\* keeps the arguments view.send was called with, sent those comm.send got.
ViewSend(v, a) ==
  /\ v \in HandedOver
  /\ CommIsOpen(views[v].comm)
  /\ Len(comms[views[v].comm].sent) < MaxSends
  /\ comms' = [comms EXCEPT
                 ![views[v].comm].sendCalls = Append(@, a),
                 ![views[v].comm].sent = Append(@, Forwarded(a)),
                 ![views[v].comm].returned =
                     @ \cup {<<"send", ReturnedId(comms[views[v].comm])>>}]
  /\ diag' = {}
  /\ UNCHANGED <<reactVars, editorVars, execVars, views, commOpenLog, registered>>

\* close: comm.close(); return comm.commId
ViewClose(v) ==
  /\ v \in HandedOver
  /\ CommIsOpen(views[v].comm)
  /\ comms' = [comms EXCEPT
                 ![views[v].comm].closed = TRUE,
                 ![views[v].comm].returned =
                     @ \cup {<<"close", ReturnedId(comms[views[v].comm])>>}]
  /\ diag' = {}
  /\ UNCHANGED <<reactVars, editorVars, execVars, views, commOpenLog, registered>>

\* open: console.log(...); return comm.commId
ViewOpen(v) ==
  /\ v \in HandedOver
  /\ comms' = [comms EXCEPT
                 ![views[v].comm].returned =
                     @ \cup {<<"open", ReturnedId(comms[views[v].comm])>>}]
  /\ diag' = {}
  /\ UNCHANGED <<reactVars, editorVars, execVars, views, commOpenLog, registered>>

\* The comm calls the handler in one of its slots: the wrapper installed by
\* on_msg / on_close calls the callback with the message it was given.
CallSlot(slot, msg) ==
  IF slot = NoHandler
    THEN <<>>
    ELSE << [cb |-> slot.cb, view |-> slot.view, msg |-> msg] >>

\* The kernel sends comm_msg on comm c.
CommMsg(c) ==
  /\ c \in 1..Len(comms)
  /\ CommIsOpen(c)
  /\ Len(comms[c].inbox) < MaxCommMsgs
  /\ LET msg == CommMsgOf(comms[c].commId, Len(comms[c].inbox) + 1)
     IN comms' = [comms EXCEPT
                    ![c].inbox = Append(@, msg),
                    ![c].called = @ \o CallSlot(comms[c].onMsg, msg)]
  /\ diag' = {}
  /\ UNCHANGED <<reactVars, editorVars, execVars, views, commOpenLog, registered>>

\* The kernel sends comm_close on comm c.
CommCloseMsg(c) ==
  /\ c \in 1..Len(comms)
  /\ CommIsOpen(c)
  /\ LET msg == CloseMsg(comms[c].commId)
     IN comms' = [comms EXCEPT
                    ![c].closed = TRUE,
                    ![c].inbox = Append(@, msg),
                    ![c].called = @ \o CallSlot(comms[c].onClose, msg)]
  /\ diag' = {}
  /\ UNCHANGED <<reactVars, editorVars, execVars, views, commOpenLog, registered>>

\* -------------------------------------------------------------------- Next
Next ==
  \/ \E t \in Tokens : SetToken(t)
  \/ \E i \in KernelIds : StartResolved(i)
  \/ \E i \in KernelIds : StartFailed(i)
  \/ \E i \in KernelIds : ContextReady(i)
  \/ HandleEditorDidMount
  \/ \E text \in EditorTexts : EditCode(text)
  \/ ExecuteCode
  \/ \E f \in 1..MaxFutures, msg \in IOPubMsgs : DeliverIOPub(f, msg)

Spec == Init /\ [][Next]_vars

\* Execution with the settlement of each future's done promise.
NextDone ==
  \/ \E t \in Tokens : SetToken(t)
  \/ \E i \in KernelIds : StartResolved(i)
  \/ \E i \in KernelIds : StartFailed(i)
  \/ \E i \in KernelIds : ContextReady(i)
  \/ HandleEditorDidMount
  \/ \E text \in EditorTexts : EditCode(text)
  \/ ExecuteCode
  \/ \E f \in 1..MaxFutures, msg \in PlainMsgs : DeliverIOPub(f, msg)
  \/ \E f \in 1..MaxFutures : FutureDone(f)
  \/ \E f \in 1..MaxFutures : FutureFailed(f)

SpecDone == Init /\ [][NextDone]_vars

\* Execution with the settlement of each set_state promise.
NextHydrate ==
  \/ \E t \in Tokens : SetToken(t)
  \/ \E i \in KernelIds : StartResolved(i)
  \/ \E i \in KernelIds : StartFailed(i)
  \/ \E i \in KernelIds : ContextReady(i)
  \/ HandleEditorDidMount
  \/ \E text \in EditorTexts : EditCode(text)
  \/ ExecuteCode
  \/ \E f \in 1..MaxFutures, msg \in IOPubMsgs : DeliverIOPub(f, msg)
  \/ \E i \in 1..MaxFutures : SetStateResolved(i)
  \/ \E i \in 1..MaxFutures : SetStateRejected(i)

SpecHydrate == Init /\ [][NextHydrate]_vars

\* The kernel start chain with the comm traffic of the started kernels.
NextComm ==
  \/ \E t \in Tokens : SetToken(t)
  \/ \E i \in KernelIds : StartResolved(i)
  \/ \E i \in KernelIds : StartFailed(i)
  \/ \E i \in KernelIds : ContextReady(i)
  \/ \E k \in KernelIds, id \in CommIds : CommOpen(k, id)
  \/ \E v \in 1..MaxComms, cb \in Callbacks : ViewOnMsg(v, cb)
  \/ \E v \in 1..MaxComms, cb \in Callbacks : ViewOnClose(v, cb)
  \/ \E v \in 1..MaxComms, a \in SendArgs : ViewSend(v, a)
  \/ \E v \in 1..MaxComms : ViewClose(v)
  \/ \E v \in 1..MaxComms : ViewOpen(v)
  \/ \E c \in 1..MaxComms : CommMsg(c)
  \/ \E c \in 1..MaxComms : CommCloseMsg(c)

SpecComm == Init /\ [][NextComm]_vars

\* ------------------------------------------------------------------ claims
ExecuteStep == execCalls' = execCalls + 1
PreconditionFails == kernel = NoKernel \/ outputArea = NoArea

\* C1: an executeCode call made while the kernel or the output area is
\* missing does not call requestExecute (no future is created, nothing is
\* thrown by the kernel) and reports "Kernel not initialized." exactly when
\* the kernel is missing and "Output area not initialized." exactly when the
\* output area is missing.
C1_PreconditionGuard ==
  [][(ExecuteStep /\ PreconditionFails) =>
       /\ Len(futures') = Len(futures)
       /\ "Uncaught: Kernel is dead" \notin diag'
       /\ ("Kernel not initialized." \in diag') <=> (kernel = NoKernel)
       /\ ("Output area not initialized." \in diag') <=> (outputArea = NoArea)
    ]_vars

C1_Witness ==
  /\ execCalls > 0
  /\ kernel # NoKernel
  /\ outputArea = NoArea
  /\ diag = {"Executing code:", "Output area not initialized."}

\* C2: an executeCode call that fails its precondition changes neither any
\* output area (model, bound future) nor any future (handler, disposal).
C2_NoPartialEffect ==
  [][(ExecuteStep /\ PreconditionFails) =>
       (areas' = areas /\ futures' = futures /\ setStateLog' = setStateLog)
    ]_vars

C2_Witness ==
  /\ execCalls > 0
  /\ kernel = NoKernel
  /\ outputArea = NoArea
  /\ diag = {"Executing code:", "Kernel not initialized.",
             "Output area not initialized."}

\* Number of set_state calls made for message n of future f with payload p.
SetStateCalls(f, n, p) ==
  Cardinality({i \in 1..Len(setStateLog) :
                 /\ setStateLog[i].future = f
                 /\ setStateLog[i].n = n
                 /\ setStateLog[i].state = p})

SetStateCallsFor(f, n) ==
  Cardinality({i \in 1..Len(setStateLog) :
                 setStateLog[i].future = f /\ setStateLog[i].n = n})

\* C3: for every delivered message of every future, set_state was called
\* exactly once with the message's payload when the message is display_data
\* carrying the widget-state key, and not at all otherwise.
C3_HydrationGating ==
  \A f \in 1..Len(futures) : \A n \in 1..Len(futures[f].emitted) :
    LET msg == futures[f].emitted[n]
    IN IF msg.msg_type = "display_data" /\ msg.widget # "none"
         THEN SetStateCalls(f, n, msg.widget) = 1 /\ SetStateCallsFor(f, n) = 1
         ELSE SetStateCallsFor(f, n) = 0

\* C4: from an executeCode call that passed its condition until the next
\* IOPub message is delivered, the model of the area that call cleared is
\* empty.
C4_EmptyUntilFirstMessage ==
  pendingClear # NoArea => areas[pendingClear].model = <<>>

\* The call cleared a model that held a record: an earlier future of the same
\* area had its second message, an output, appended.
C4_Witness ==
  /\ pendingClear # NoArea
  /\ \E f \in 1..Len(futures) :
       /\ futures[f].oa = pendingClear
       /\ futures[f].handler = "area"
       /\ Len(futures[f].emitted) = 2
       /\ futures[f].emitted[2].msg_type \in OutputTypes

\* The positions of the output messages among those delivered for future f.
OutputPositions(f) ==
  {n \in 1..Len(futures[f].emitted) :
     futures[f].emitted[n].msg_type \in OutputTypes}

\* C5: while only one execution was ever started, the model of its area holds
\* exactly one record per output message delivered, in delivery order.
C5_OrderedAppends ==
  Len(futures) = 1 =>
    LET model == areas[futures[1].oa].model
    IN /\ Len(model) = Cardinality(OutputPositions(1))
       /\ \A i \in 1..Len(model) : model[i][1] = 1 /\ model[i][2] \in OutputPositions(1)
       /\ \A i, j \in 1..Len(model) : i < j => model[i][2] < model[j][2]

\* A step that delivers a message of future f.
Delivers(f) ==
  /\ f \in 1..Len(futures)
  /\ Len(futures') = Len(futures)
  /\ Len(futures'[f].emitted) = Len(futures[f].emitted) + 1

\* C6: once a later future was started, delivering a message of an earlier
\* future neither changes the binding of any output area nor adds a record to
\* any model.
C6_Superseded ==
  [][\A f \in 1..MaxFutures :
       (Delivers(f) /\ Len(futures) > f) =>
         \A a \in KernelIds :
           /\ areas'[a].future = areas[a].future
           /\ areas'[a].model = areas[a].model
    ]_vars

\* C7: a step that binds an output area to a different future finds that
\* area's model empty (cleared, with nothing appended since).
C7_ReboundOnlyAfterClear ==
  [][\A a \in KernelIds :
       (areas'[a].future # areas[a].future) => areas[a].model = <<>>
    ]_vars

\* The views built for native comm c, and the handle_comm_open calls made
\* with one of them.
ViewsOf(c) == {v \in 1..Len(views) : views[v].comm = c}
HandOvers(c) == {i \in 1..Len(commOpenLog) : commOpenLog[i].view \in ViewsOf(c)}

\* C8: every comm the kernel connection passed to the comm target callback
\* has exactly one view, handle_comm_open was called exactly once for it, with
\* that view and the comm's open message, and every callback the comm has
\* called was installed through that view.
C8_OneViewPerComm ==
  \A c \in 1..Len(comms) :
    /\ Cardinality(ViewsOf(c)) = 1
    /\ Cardinality(HandOvers(c)) = 1
    /\ \A i \in HandOvers(c) : commOpenLog[i].msg = OpenMsg(comms[c].commId)
    /\ \A j \in 1..Len(comms[c].called) : comms[c].called[j].view \in ViewsOf(c)

C8_Witness ==
  \E c \in 1..Len(comms) :
    /\ Cardinality(HandOvers(c)) = 1
    /\ Len(comms[c].called) = 2

\* A step in which comm c receives a message of the given type.
Receives(c, type) ==
  /\ c \in 1..Len(comms)
  /\ Len(comms') = Len(comms)
  /\ Len(comms'[c].inbox) = Len(comms[c].inbox) + 1
  /\ comms'[c].inbox[Len(comms'[c].inbox)].msg_type = type

\* The callback invocations comm c makes in a step.
NewCalls(c) ==
  SubSeq(comms'[c].called, Len(comms[c].called) + 1, Len(comms'[c].called))

\* C9: every view carries the id and the target name of its comm; every value
\* send, close or open returned is the comm's id; and a comm_msg received
\* after on_msg(cb) is passed to cb exactly once, unchanged.
C9_AdapterFidelity ==
  /\ [](\A v \in 1..Len(views) :
          /\ views[v].comm_id = comms[views[v].comm].commId
          /\ views[v].target_name = comms[views[v].comm].targetName
          /\ \A r \in comms[views[v].comm].returned :
               r[2] = comms[views[v].comm].commId)
  /\ [][\A c \in 1..MaxComms :
          (Receives(c, "comm_msg") /\ registered[c].msg # NoCallback) =>
            /\ Len(NewCalls(c)) = 1
            /\ NewCalls(c)[1].cb = registered[c].msg
            /\ NewCalls(c)[1].msg = comms'[c].inbox[Len(comms'[c].inbox)]
       ]_vars

C9_Witness ==
  \E c \in 1..Len(comms) :
    /\ <<"send", comms[c].commId>> \in comms[c].returned
    /\ <<"close", comms[c].commId>> \in comms[c].returned
    /\ Len(comms[c].called) >= 1
    /\ comms[c].called[1].msg = comms[c].inbox[1]

\* C10: a message received by a comm calls no callback but the one last
\* passed to on_msg, a close notification none but the one last passed to
\* on_close; and a step that changes one of the two slots leaves the other.
C10_SingleSlot ==
  [][\A c \in 1..MaxComms :
       /\ Receives(c, "comm_msg") =>
            \A j \in 1..Len(NewCalls(c)) : NewCalls(c)[j].cb = registered[c].msg
       /\ Receives(c, "comm_close") =>
            \A j \in 1..Len(NewCalls(c)) : NewCalls(c)[j].cb = registered[c].close
       /\ (c \in 1..Len(comms) /\ Len(comms') = Len(comms)) =>
            /\ comms'[c].onMsg # comms[c].onMsg => comms'[c].onClose = comms[c].onClose
            /\ comms'[c].onClose # comms[c].onClose => comms'[c].onMsg = comms[c].onMsg
    ]_vars

\* The first message went to callback 1, then on_msg replaced it and the
\* second message went to callback 2 alone.
C10_Witness ==
  \E c \in 1..Len(comms) :
    /\ Len(comms[c].called) = 2
    /\ comms[c].called[1].cb = 1
    /\ comms[c].called[2].cb = 2
    /\ comms[c].called[2].msg = comms[c].inbox[2]
    /\ comms[c].onClose # NoHandler

\* C11: every view.send(data, callbacks, metadata, buffers) made exactly one
\* comm.send call, with (data, metadata, buffers); the callbacks argument is
\* neither forwarded nor called; and the call returned the comm's id.
C11_SendForwarding ==
  \A c \in 1..Len(comms) :
    /\ Len(comms[c].sent) = Len(comms[c].sendCalls)
    /\ \A i \in 1..Len(comms[c].sendCalls) :
         LET a == comms[c].sendCalls[i]
         IN comms[c].sent[i] = <<a.data, a.metadata, a.buffers>>
    /\ \A j \in 1..Len(comms[c].called) : comms[c].called[j].cb \in Callbacks
    /\ comms[c].sendCalls # <<>> =>
         \E r \in comms[c].returned : r = <<"send", comms[c].commId>>
    /\ \A r \in comms[c].returned : r[1] = "send" => r[2] = comms[c].commId

\* send was called with callbacks and buffers but no metadata, and a message
\* arrived afterwards on the same comm.
C11_Witness ==
  \E c \in 1..Len(comms) :
    /\ Len(comms[c].sendCalls) = 1
    /\ comms[c].sendCalls[1].callbacks = "cbs"
    /\ comms[c].sendCalls[1].metadata = "undefined"
    /\ comms[c].sendCalls[1].buffers = "bufs"
    /\ comms[c].sent = << <<"d", "undefined", "bufs">> >>
    /\ Len(comms[c].called) >= 1

\* C12: once a set_state call has failed, every widget-state display_data
\* message delivered after the failing one (later in the same future, or in
\* a later future) has been handed to set_state exactly once.
C12_HydrationContinues ==
  \A i \in 1..Len(setStateLog) :
    setStateLog[i].outcome = "failed" =>
      \A f \in 1..Len(futures) : \A n \in 1..Len(futures[f].emitted) :
        LET msg == futures[f].emitted[n]
        IN (/\ \/ f > setStateLog[i].future
               \/ f = setStateLog[i].future /\ n > setStateLog[i].n
            /\ msg.msg_type = "display_data"
            /\ msg.widget # "none")
           => SetStateCallsFor(f, n) = 1

\* A step in which the done promise of some future is rejected.
DoneRejects ==
  \E f \in 1..Len(futures) :
    futures[f].done = "pending" /\ futures'[f].done = "failed"

\* requestExecute calls made by a step: one per future created, and the call
\* that threw on a dead kernel.
RequestExecuteCalls ==
  (Len(futures') - Len(futures))
    + (IF "Uncaught: Kernel is dead" \in diag' /\ ExecuteStep THEN 1 ELSE 0)

\* C13: a step in which a future's done promise rejects reports "Execution
\* error:", leaves the model and the bound future of every output area as
\* they were, and calls requestExecute zero times; in every step the number
\* of requestExecute calls is one when the step is an executeCode call that
\* passes its condition and zero otherwise.
C13_FailureNotRetried ==
  [][/\ DoneRejects =>
          /\ diag' = {"Execution error:"}
          /\ areas' = areas
          /\ RequestExecuteCalls = 0
     /\ RequestExecuteCalls =
          (IF ExecuteStep /\ CanSubmit(kernel, GetCode, outputArea)
             THEN 1 ELSE 0)
    ]_vars

C13_Witness ==
  /\ diag = {"Execution error:"}
  /\ \E f \in 1..Len(futures) :
       /\ futures[f].done = "failed"
       /\ areas[futures[f].oa].future = f
       /\ areas[futures[f].oa].model # <<>>

\* Kernels whose startNew() resolved and on which shutdown() was not called.
LiveKernels ==
  {i \in KernelIds : starts[i] \in {"context", "done"} /\ i \notin shutdown}

\* C14: at most one kernel is started and not shut down.
C14_OneLiveKernel == Cardinality(LiveKernels) <= 1

\* C15: the step of an executeCode call that creates a future leaves the
\* output area of the call bound to that future.
C15_BoundAtSubmission ==
  [][(ExecuteStep /\ Len(futures') = Len(futures) + 1) =>
       areas'[futures'[Len(futures')].oa].future = Len(futures')
    ]_vars

\* C16: whenever a kernel is the current session and an output area exists,
\* exactly one handler for the widget target is registered on that kernel.
C16_TargetRegistered ==
  (kernel # NoKernel /\ outputArea # NoArea) => commTargets[kernel] = 1

\* C17: once the credential was changed at least once and every start chain
\* issued so far has run to its end, the kernel, the widget manager and the
\* output area are those of the chain issued last.
C17_LatestCredentialWins ==
  (/\ token # 0
   /\ NumStarts >= 2
   /\ \A i \in KernelIds : starts[i] \in {"none", "done"})
  => (kernel = NumStarts /\ managerRef = NumStarts /\ outputArea = NumStarts)

\* The editor is mounted and holds a non-empty text.
HasCode == editorRef /\ editorText # ""

\* C18: an executeCode call calls requestExecute exactly when the kernel
\* and the output area exist and the editor returns a non-empty text; a call
\* made with kernel and output area but without code creates no future,
\* changes no output area and reports neither "Kernel not initialized." nor
\* "Output area not initialized.".
C18_SubmitIffAllThree ==
  [][ExecuteStep =>
       /\ (RequestExecuteCalls = 1)
            <=> (kernel # NoKernel /\ outputArea # NoArea /\ HasCode)
       /\ RequestExecuteCalls \in {0, 1}
       /\ (kernel # NoKernel /\ outputArea # NoArea /\ ~HasCode) =>
            /\ futures' = futures
            /\ areas' = areas
            /\ "Uncaught: Kernel is dead" \notin diag'
            /\ "Kernel not initialized." \notin diag'
            /\ "Output area not initialized." \notin diag'
    ]_vars

\* An executeCode call was just made with kernel, output area and a mounted
\* editor whose text is empty, on an area that holds output.
C18_Witness ==
  /\ diag = {"Executing code:"}
  /\ kernel # NoKernel
  /\ outputArea # NoArea
  /\ editorRef
  /\ editorText = ""
  /\ areas[outputArea].model # <<>>

====
